---- MODULE Spec2Model ----
(***************************************************************************)
(* A model of qsub.py: the Job handle (its refresh from a qstat listing,   *)
(* its predicates) and monitor_jobs, the polling loop over a list of       *)
(* handles.                                                                *)
(*                                                                         *)
(* A qstat listing is a sequence of lines and a line a sequence of         *)
(* whitespace-delimited fields (strings).  The two regular expressions of  *)
(* Job.get_job and Job.get_status are modelled by what they match on such  *)
(* lines.  Python lists are sequences, None is the value None below.       *)
(***************************************************************************)
EXTENDS Naturals, Sequences, FiniteSets, TLC

\* ------------------------------------------------------------------------
\* Bounds of the model
\* ------------------------------------------------------------------------

\* the most jobs a cohort handed to monitor_jobs holds
NJobs == 2

\* the most snapshots a scripted queue source holds
MaxScript == 2

\* ------------------------------------------------------------------------
\* Values
\* ------------------------------------------------------------------------

\* Python's None (a status that did not parse, a state with no meaning)
None == "<None>"

\* the job identifiers the scheduler hands out, in submission order
IdOf == <<"101", "102", "103", "104">>

JobIds == {IdOf[k] : k \in 1..NJobs}

\* the status column of a qstat line: the tokens of job_state_key and one
\* the table does not know
StatusTokens == {"r", "qw", "Eqw", "t", "dr", "hqw"}

\* fields that match [a-zA-Z]+ : the status tokens, a job name, a user name
AlphaFields == StatusTokens \cup {"python", "None"}

\* job_state_key as the module leaves it after lines 28-33: a defaultdict,
\* here the function of its explicit entries
job_state_key_init ==
    [k \in {"Eqw", "r", "qw", "t", "dr"} |->
        CASE k = "Eqw" -> "Error"
          [] k = "r"   -> "Running"
          [] k = "qw"  -> "Waiting"
          [] OTHER     -> None]

\* ------------------------------------------------------------------------
\* Python helpers
\* ------------------------------------------------------------------------

\* str(x) for a status: str(None) is "None"
str(x) == IF x = None THEN "None" ELSE x

\* x in list
InList(x, list) == \E k \in 1..Len(list) : list[k] = x

\* the index of the first occurrence of x in list (0 when there is none)
IndexOf(x, list) ==
    IF InList(x, list)
    THEN CHOOSE k \in 1..Len(list) :
            list[k] = x /\ \A m \in 1..(k - 1) : list[m] # x
    ELSE 0

\* the list without its element at position k (1-based)
DropAt(list, k) ==
    [m \in 1..(Len(list) - 1) |-> IF m < k THEN list[m] ELSE list[m + 1]]

\* ------------------------------------------------------------------------
\* Job: parsing one listing
\* ------------------------------------------------------------------------

\* re.findall(r"^\s*{id}\s.*$", listing, MULTILINE): the lines whose first
\* field is the identifier and is followed by another field.  A falsy
\* (empty) listing is replaced by the result of a fresh qstat() call.
get_job(id, qstat_stdout, fresh) ==
    LET listing == IF qstat_stdout = <<>> THEN fresh ELSE qstat_stdout
    IN  SelectSeq(listing, LAMBDA line : Len(line) >= 2 /\ line[1] = id)

\* the fields of str(entry) that "\s([a-zA-Z]+)\s" can match: in the repr
\* of the list every line is quoted, so the first field of a line follows a
\* quote and its last field is followed by one; the fields strictly between
\* stand between two blanks.
RECURSIVE MiddleAlpha(_)
MiddleAlpha(entry) ==
    IF entry = <<>> THEN <<>>
    ELSE LET line == Head(entry)
             mid  == IF Len(line) >= 3 THEN SubSeq(line, 2, Len(line) - 1)
                     ELSE <<>>
         IN  SelectSeq(mid, LAMBDA f : f \in AlphaFields)
                 \o MiddleAlpha(Tail(entry))

\* re.search(r"^.*\s*{id}.*\s([a-zA-Z]+)\s.*$", str(entry)): both ".*" are
\* greedy, so group 1 is the last field the pattern can match
get_status(id, entry, qstat_stdout, fresh) ==
    LET e == IF entry = <<>> THEN get_job(id, qstat_stdout, fresh) ELSE entry
        m == MiddleAlpha(e)
    IN  IF m = <<>> THEN None ELSE m[Len(m)]

\* job_state_key[str(status)]: the value the defaultdict returns
get_state(status, table) ==
    IF str(status) \in DOMAIN table THEN table[str(status)] ELSE None

\* a lookup that stores the key itself under a key the table did not hold
lookup_effect_stores_key(status, table) ==
    IF str(status) \in DOMAIN table THEN table
    ELSE table @@ (str(status) :> str(status))

\* job_state_key[str(status)]: the table after the lookup; a defaultdict
\* stores the default under a key it did not hold
lookup_effect(status, table) ==
    IF str(status) \in DOMAIN table THEN table
    ELSE table @@ (str(status) :> None)

get_is_running(state) == state \in {"Running"}

get_is_error(state) == state \in {"Error"}

get_is_present(id, entry, qstat_stdout, fresh) ==
    LET e == IF entry = <<>> THEN get_job(id, qstat_stdout, fresh) ELSE entry
    IN  e # <<>>

\* ------------------------------------------------------------------------
\* Job: the handle and its refresh
\* ------------------------------------------------------------------------

\* the attributes a refresh sets (id, name and job_state_key are set by
\* __init__ and never change)
UpdateAttrs == {"entry", "status", "state", "is_running", "is_error", "is_present"}

\* Job(id, debug = True): no attribute of UpdateAttrs exists yet; the
\* values below stand for the missing attributes and are never read
NewJob ==
    [attrs |-> {}, entry |-> <<>>, status |-> None, state |-> None,
     is_running |-> FALSE, is_error |-> FALSE, is_present |-> FALSE]

\* how many qstat() calls one refresh makes: the one of _update, one more in
\* get_job when that listing is empty, and then one each in get_status and
\* get_is_present when the entry is empty too
QueriesMade(first, id, q1, q2) ==
    first + (IF q1 = <<>> THEN 1 ELSE 0)
          + (IF q1 = <<>> /\ get_job(id, q1, q2) = <<>> THEN 2 ELSE 0)

\* Job._update with q1 the listing of its qstat() call and q2, q3, q4 the
\* listings the calls inside get_job, get_status and get_is_present return
\* when they are made
Job_update(self, id, table, q1, q2, q3, q4) ==
    LET entry  == get_job(id, q1, q2)
        status == get_status(id, entry, q1, q3)
        state  == get_state(status, table)
    IN  [self  |-> [attrs      |-> self.attrs \cup UpdateAttrs,
                    entry      |-> entry,
                    status     |-> status,
                    state      |-> state,
                    is_running |-> get_is_running(state),
                    is_error   |-> get_is_error(state),
                    is_present |-> get_is_present(id, entry, q1, q4)],
         table  |-> lookup_effect(status, table),
         nq     |-> QueriesMade(1, id, q1, q2),
         raised |-> FALSE]

\* Job._debug_update(qstat_stdout): the listing is passed in, is_error is
\* not assigned
Job_debug_update(self, id, table, qstat_stdout, q2, q3, q4) ==
    LET entry  == get_job(id, qstat_stdout, q2)
        status == get_status(id, entry, qstat_stdout, q3)
        state  == get_state(status, table)
    IN  [self  |-> [attrs      |-> self.attrs \cup (UpdateAttrs \ {"is_error"}),
                    entry      |-> entry,
                    status     |-> status,
                    state      |-> state,
                    is_running |-> get_is_running(state),
                    is_error   |-> self.is_error,
                    is_present |-> get_is_present(id, entry, qstat_stdout, q4)],
         table  |-> lookup_effect(status, table),
         nq     |-> QueriesMade(0, id, qstat_stdout, q2),
         raised |-> FALSE]

\* Job._update when its k-th qstat() call raises: the assignments made
\* before the call stand, the others are not made
Job_update_raises(self, id, table, k, q3) ==
    LET status == get_status(id, <<>>, <<>>, q3)
        state  == get_state(status, table)
    IN  [self  |-> IF k <= 2 THEN self
                   ELSE IF k = 3
                   THEN [self EXCEPT !.attrs = @ \cup {"entry"}, !.entry = <<>>]
                   ELSE [self EXCEPT
                           !.attrs = @ \cup (UpdateAttrs \ {"is_present"}),
                           !.entry = <<>>,
                           !.status = status,
                           !.state = state,
                           !.is_running = get_is_running(state),
                           !.is_error = get_is_error(state)],
         table  |-> IF k = 4 THEN lookup_effect(status, table) ELSE table,
         nq     |-> k,
         raised |-> TRUE]

\* ------------------------------------------------------------------------
\* The queue snapshot source
\* ------------------------------------------------------------------------

\* what the scheduler can say of one job: not listed, or listed with a
\* status token
QueueStates == {"absent", "r", "qw", "Eqw", "dr"}

\* one line of qstat output: job-ID, priority, name, state, submit date
Line(id, status) == <<id, "0.50000", "python", status, "06/15/2017">>

\* the listing in which job IdOf[k] is in queue state f[IdOf[k]], k <= n
RECURSIVE ListingOf(_, _)
ListingOf(f, n) ==
    IF n = 0 THEN <<>>
    ELSE ListingOf(f, n - 1) \o
         (IF f[IdOf[n]] = "absent" THEN <<>> ELSE <<Line(IdOf[n], f[IdOf[n]])>>)

\* every listing qstat() can return
Listings == {ListingOf(f, NJobs) : f \in [JobIds -> QueueStates]}

\* the cohorts handed to monitor_jobs: lists of distinct handles
Cohorts == {SubSeq(IdOf, 1, n) : n \in 0..NJobs}

\* ------------------------------------------------------------------------
\* State
\* ------------------------------------------------------------------------

VARIABLES
    job_state_key,  \* the module's global defaultdict
    handle,         \* the Job objects, by identifier
    jobs_type,      \* type(jobs) of the argument of monitor_jobs
    jobs,           \* the argument jobs, a list changed in place
    kill_err,       \* the argument kill_err
    err_jobs,       \* monitor_jobs: err_jobs
    num_jobs,       \* monitor_jobs: num_jobs
    it,             \* the position of the list iterator of the for loop
    i,              \* monitor_jobs: i (0-based, as enumerate counts)
    job,            \* monitor_jobs: job
    pc,             \* where monitor_jobs (or the caller of a handle) stands
    exc,            \* the exception that left monitor_jobs, "" while none
    log,            \* the messages of logger.error and logger.warning, in order
    qdel,           \* the qdel commands run, each the list of its identifiers
    cohort,         \* history: jobs as it was passed
    removed,        \* history: how many jobs.remove(job) were made
    cycle_jobs,     \* history: jobs when the current for loop started
    polled,         \* history: the predicate calls of the current for loop
    queried,        \* history: whether qstat() was called since the call
    script,         \* a scripted queue source: its snapshots (<<>>: none)
    spos,           \* a scripted queue source: the snapshot now served
    last,           \* the last operation a caller made on a handle
    elapsed_time,   \* wait_all_jobs_start: whether elapsed_time is bound
    returned        \* the value a waiting function returned, "" before

vars == <<job_state_key, handle, jobs_type, jobs, kill_err, err_jobs,
          num_jobs, it, i, job, pc, exc, log, qdel, cohort, removed,
          cycle_jobs, polled, queried, script, spos, last, elapsed_time,
          returned>>

monitor_vars == <<jobs_type, jobs, kill_err, err_jobs, num_jobs, it, i, job,
                  exc, log, qdel, cohort, removed, cycle_jobs, polled,
                  queried, script, spos, elapsed_time, returned>>

\* ------------------------------------------------------------------------
\* One refresh against the queue snapshot source
\* ------------------------------------------------------------------------

\* the snapshot a scripted source serves now; its last one stays
Served == script[IF spos <= Len(script) THEN spos ELSE Len(script)]

\* the listings the qstat() calls of one refresh may return while
\* monitor_jobs polls: the served snapshot of a script, or else any listing,
\* the same to the calls of one refresh (they follow each other at once);
\* it may be another at the next poll
Queries ==
    IF script # <<>> THEN {<<Served, Served, Served, Served>>}
    ELSE {<<q, q, q, q>> : q \in Listings}

\* the qstat() calls of one refresh that can raise, with the listing the
\* call before returned: the first, or a later one, made after an empty
\* listing (a scripted source does not raise)
Raising ==
    IF script # <<>> THEN {}
    ELSE {<<k, <<>>>> : k \in 1..4}

\* the results of self._update() for handle id
Updates(id) ==
    {Job_update(handle[id], id, job_state_key, q[1], q[2], q[3], q[4]) :
        q \in Queries} \cup
    {Job_update_raises(handle[id], id, job_state_key, r[1], r[2]) :
        r \in Raising}

\* ------------------------------------------------------------------------
\* monitor_jobs
\* ------------------------------------------------------------------------

\* the check of the argument without its isinstance test
Rejection_no_isinstance(type, list) ==
    IF type = "NoneType" \/ Len(list) < 1 THEN "No jobs to monitor" ELSE ""

\* lines 261-267: the message of the check that rejects the argument, ""
\* when it is accepted ("not jobs" is true of None and of an empty list or
\* tuple)
Rejection(type, list) ==
    IF type = "NoneType" \/ Len(list) < 1 THEN "No jobs to monitor"
    ELSE IF type # "list" THEN "\"jobs\" passed is not a list"
    ELSE ""

\* jobs.remove(job) leaving the list as it is
list_remove_nothing(list, x) == list

\* jobs.remove(job): the list without the first occurrence of job
list_remove(list, x) == DropAt(list, IndexOf(x, list))

\* jobs.pop(k) returning the element and leaving it in the list
list_pop_keeps(list, k) == list

\* jobs.pop(k), k counted from 0: the list that is left
list_pop(list, k) == DropAt(list, k + 1)

\* a qdel command that names the first stuck job only
qdel_ids_first(stuck) == <<stuck[1]>>

\* line 293: the identifiers the qdel command names
qdel_ids(stuck) == stuck

\* line 291: whether the jobs left in error state are killed
kills(stuck, flag) == stuck # <<>> /\ flag

\* one entry of the history of predicate calls
Poll(j, pred, u) ==
    [job |-> j, pred |-> pred, raised |-> u.raised,
     ret |-> IF u.raised THEN FALSE
             ELSE IF pred = "present" THEN u.self.is_present
             ELSE u.self.is_error]

\* a call of monitor_jobs with any argument; every handle was built by
\* Job(id) when its job was submitted and listed as waiting
Init ==
    /\ job_state_key = job_state_key_init
    /\ handle = [id \in JobIds |->
                   Job_update(NewJob, id, job_state_key_init,
                              <<Line(id, "qw")>>, <<>>, <<>>, <<>>).self]
    /\ jobs_type \in {"NoneType", "list", "tuple"}
    /\ jobs \in Cohorts
    /\ jobs_type = "NoneType" => jobs = <<>>
    /\ kill_err \in BOOLEAN
    /\ err_jobs = <<>>
    /\ num_jobs = 0
    /\ it = 0
    /\ i = 0
    /\ job = None
    /\ pc = "call"
    /\ exc = ""
    /\ log = <<>>
    /\ qdel = <<>>
    /\ cohort = jobs
    /\ removed = 0
    /\ cycle_jobs = <<>>
    /\ polled = <<>>
    /\ queried = FALSE
    /\ script = <<>>
    /\ spos = 0
    /\ last = [op |-> "none", id |-> None, nq |-> 0, raised |-> FALSE, ret |-> FALSE]
    /\ elapsed_time = "unbound"
    /\ returned = ""

\* lines 261-272: the argument is checked, the locals are set
MonitorCall ==
    /\ pc = "call"
    /\ IF Rejection(jobs_type, jobs) # ""
       THEN /\ log' = Append(log, Rejection(jobs_type, jobs))
            /\ pc' = "done"
            /\ UNCHANGED <<err_jobs, num_jobs>>
       ELSE /\ err_jobs' = <<>>
            /\ num_jobs' = Len(jobs)
            /\ pc' = "while"
            /\ UNCHANGED log
    /\ UNCHANGED <<job_state_key, handle, jobs_type, jobs, kill_err, it, i,
                   job, exc, qdel, cohort, removed, cycle_jobs, polled,
                   queried, script, spos, last,
                   elapsed_time, returned>>

\* lines 273-279: the loop test, the refresh of num_jobs, the start of the
\* for loop
MonitorWhile ==
    /\ pc = "while"
    /\ IF num_jobs > 0
       THEN /\ num_jobs' = Len(jobs)
            /\ it' = 0
            /\ cycle_jobs' = jobs
            /\ polled' = <<>>
            /\ pc' = "for"
       ELSE /\ pc' = "post"
            /\ UNCHANGED <<num_jobs, it, cycle_jobs, polled>>
    /\ UNCHANGED <<job_state_key, handle, jobs_type, jobs, kill_err, err_jobs,
                   i, job, exc, log, qdel, cohort, removed, queried, script,
                   spos, last,
                   elapsed_time, returned>>

\* line 279: the list iterator yields the element at its position, if the
\* list as it is now has one, and moves on
MonitorFor ==
    /\ pc = "for"
    /\ IF it < Len(jobs)
       THEN /\ i' = it
            /\ job' = jobs[it + 1]
            /\ it' = it + 1
            /\ pc' = "present"
       ELSE /\ pc' = "sleep"
            /\ UNCHANGED <<i, job, it>>
    /\ UNCHANGED <<job_state_key, handle, jobs_type, jobs, kill_err, err_jobs,
                   num_jobs, exc, log, qdel, cohort, removed, cycle_jobs,
                   polled, queried, script, spos, last,
                   elapsed_time, returned>>

\* lines 280-281: job.present(), and jobs.remove(job) when it returns False
MonitorPresent ==
    /\ pc = "present"
    /\ \E u \in Updates(job) :
        /\ handle' = [handle EXCEPT ![job] = u.self]
        /\ job_state_key' = u.table
        /\ queried' = TRUE
        /\ polled' = Append(polled, Poll(job, "present", u))
        /\ IF u.raised
           THEN /\ exc' = "ErrorReturnCode"
                /\ pc' = "raised"
                /\ UNCHANGED <<jobs, removed>>
           ELSE /\ jobs' = IF u.self.is_present THEN jobs
                           ELSE list_remove(jobs, job)
                /\ removed' = IF u.self.is_present THEN removed
                              ELSE removed + 1
                /\ pc' = "error"
                /\ UNCHANGED exc
    /\ UNCHANGED <<jobs_type, kill_err, err_jobs, num_jobs, it, i, job, log,
                   qdel, cohort, cycle_jobs, script, spos, last,
                   elapsed_time, returned>>

\* lines 282-283: job.error(), and err_jobs.append(jobs.pop(i)) when it
\* returns True; pop raises IndexError when the list has no index i
MonitorError ==
    /\ pc = "error"
    /\ \E u \in Updates(job) :
        /\ handle' = [handle EXCEPT ![job] = u.self]
        /\ job_state_key' = u.table
        /\ queried' = TRUE
        /\ polled' = Append(polled, Poll(job, "error", u))
        /\ IF u.raised
           THEN /\ exc' = "ErrorReturnCode"
                /\ pc' = "raised"
                /\ UNCHANGED <<jobs, err_jobs>>
           ELSE IF ~u.self.is_error
           THEN /\ pc' = "for"
                /\ UNCHANGED <<jobs, err_jobs, exc>>
           ELSE IF i < Len(jobs)
           THEN /\ err_jobs' = Append(err_jobs, jobs[i + 1])
                /\ jobs' = list_pop(jobs, i)
                /\ pc' = "for"
                /\ UNCHANGED exc
           ELSE /\ exc' = "IndexError"
                /\ pc' = "raised"
                /\ UNCHANGED <<jobs, err_jobs>>
    /\ UNCHANGED <<jobs_type, kill_err, num_jobs, it, i, job, log, qdel,
                   cohort, removed, cycle_jobs, script, spos, last,
                   elapsed_time, returned>>

\* line 284: sleep(5); a scripted source serves its next snapshot to the
\* next cycle
MonitorSleep ==
    /\ pc = "sleep"
    /\ pc' = "while"
    /\ spos' = IF script # <<>> /\ polled # <<>> THEN spos + 1 ELSE spos
    /\ UNCHANGED <<job_state_key, handle, jobs_type, jobs, kill_err, err_jobs,
                   num_jobs, it, i, job, exc, log, qdel, cohort, removed,
                   cycle_jobs, polled, queried, script, last,
                   elapsed_time, returned>>

\* lines 285-296: the report of the jobs left in error state, the one qdel
\* command for them, the return
MonitorPost ==
    /\ pc = "post"
    /\ log' = IF err_jobs # <<>> THEN Append(log, "jobs left in error state")
              ELSE log
    /\ qdel' = IF kills(err_jobs, kill_err)
               THEN Append(qdel, qdel_ids(err_jobs))
               ELSE qdel
    /\ pc' = "done"
    /\ UNCHANGED <<job_state_key, handle, jobs_type, jobs, kill_err, err_jobs,
                   num_jobs, it, i, job, exc, cohort, removed, cycle_jobs,
                   polled, queried, script, spos, last,
                   elapsed_time, returned>>

Next ==
    \/ MonitorCall
    \/ MonitorWhile
    \/ MonitorFor
    \/ MonitorPresent
    \/ MonitorError
    \/ MonitorSleep
    \/ MonitorPost

\* monitor_jobs on any cohort, the queue source returning any listing
Spec == Init /\ [][Next]_vars

\* the same, the interpreter never stopping between two steps
FairSpec == Init /\ [][Next]_vars /\ WF_vars(Next)

\* a scripted queue source: one snapshot per poll cycle, and in the last one
\* (which stays) no job of the cohort is listed
Scripts(list) ==
    {sc \in UNION {[1..n -> Listings] : n \in 1..MaxScript} :
        \A k \in 1..Len(list) : get_job(list[k], sc[Len(sc)], <<>>) = <<>>}

ScriptInit ==
    /\ job_state_key = job_state_key_init
    /\ handle = [id \in JobIds |->
                   Job_update(NewJob, id, job_state_key_init,
                              <<Line(id, "qw")>>, <<>>, <<>>, <<>>).self]
    /\ jobs_type = "list"
    /\ jobs \in Cohorts \ {<<>>}
    /\ kill_err \in BOOLEAN
    /\ err_jobs = <<>>
    /\ num_jobs = 0
    /\ it = 0
    /\ i = 0
    /\ job = None
    /\ pc = "call"
    /\ exc = ""
    /\ log = <<>>
    /\ qdel = <<>>
    /\ cohort = jobs
    /\ removed = 0
    /\ cycle_jobs = <<>>
    /\ polled = <<>>
    /\ queried = FALSE
    /\ script \in Scripts(jobs)
    /\ spos = 1
    /\ last = [op |-> "none", id |-> None, nq |-> 0, raised |-> FALSE, ret |-> FALSE]
    /\ elapsed_time = "unbound"
    /\ returned = ""

\* monitor_jobs on a valid cohort against a scripted queue source
ScriptSpec == ScriptInit /\ [][Next]_vars

\* ------------------------------------------------------------------------
\* Claims about monitor_jobs
\* ------------------------------------------------------------------------

\* the jobs whose presence was polled in the current for loop, in order
RECURSIVE PresentPolls(_)
PresentPolls(p) ==
    IF p = <<>> THEN <<>>
    ELSE (IF Head(p).pred = "present" THEN <<Head(p).job>> ELSE <<>>)
             \o PresentPolls(Tail(p))

\* C1: when a for loop over the list has ended, every job that was in the
\* list when it started has had its presence polled exactly once in the
\* loop, in list order: no job is skipped because an earlier one was removed
\* or popped.
C1_EveryActiveJobPolledOnce ==
    pc = "sleep" => PresentPolls(polled) = cycle_jobs

\* the predicate call just made, when the step made one
Polling == polled' # <<>> /\ Len(polled') = Len(polled) + 1

\* C2: a job leaves the list only in the step of one of its own polls:
\* removed only when its own present() returned False, moved to err_jobs
\* only when its own error() returned True; so a job whose polls return
\* present and no error stays.
C2_LeavesOnOwnObservation ==
    [][\A j \in JobIds :
         (InList(j, jobs) /\ ~InList(j, jobs')) =>
            /\ Polling
            /\ polled'[Len(polled')].job = j
            /\ \/ /\ polled'[Len(polled')].pred = "present"
                  /\ ~polled'[Len(polled')].ret
                  /\ ~InList(j, err_jobs')
               \/ /\ polled'[Len(polled')].pred = "error"
                  /\ polled'[Len(polled')].ret
                  /\ InList(j, err_jobs')]_vars

\* C3: the absence check takes precedence: after a present() call of a job
\* returned False, no error() call is made on that job in the same cycle.
C3_NoErrorPollAfterAbsent ==
    \A k \in 2..Len(polled) :
        ~ /\ polled[k].pred = "error"
          /\ polled[k - 1].pred = "present"
          /\ polled[k - 1].job = polled[k].job
          /\ ~polled[k - 1].raised
          /\ ~polled[k - 1].ret

\* C4: in every step the list does not grow, err_jobs does not shrink, no
\* job comes back into the list, and list + err_jobs + removed jobs count
\* the jobs that were passed.
C4_Monotone ==
    [][/\ Len(jobs') <= Len(jobs)
       /\ Len(err_jobs') >= Len(err_jobs)
       /\ \A j \in JobIds : ~InList(j, jobs) => ~InList(j, jobs')
       /\ Len(jobs) + Len(err_jobs) + removed = Len(cohort)
       /\ Len(jobs') + Len(err_jobs') + removed' = Len(cohort')]_vars

C4_Witness ==
    pc = "done" /\ removed >= 1 /\ err_jobs # <<>> /\ jobs = <<>>

\* job j, while it is in the list, is reported absent
ReportedAbsent(j) == InList(j, jobs) => ~handle[j].is_present

\* job j, while it is in the list, is reported in error state
ReportedError(j) == InList(j, jobs) => handle[j].is_error

\* every job is, from some time on, reported absent for good or reported in
\* error state for good, and no qstat() call fails
SchedulerSettles ==
    /\ \A j \in JobIds : <>[]ReportedAbsent(j) \/ <>[]ReportedError(j)
    /\ [](exc # "ErrorReturnCode")

\* C5: if from some time on every job in the list is reported absent for
\* good or in error state for good, and no qstat() call fails, monitor_jobs
\* leaves its loop and returns.
C5_Terminates ==
    SchedulerSettles => <>(pc = "done")

\* under the same assumption monitor_jobs returns unless jobs.pop(i) raises
C5_ReturnsUnlessPopRaises ==
    SchedulerSettles => <>(pc = "done" \/ exc = "IndexError")

\* C6: against a scripted source in whose last snapshot no job of the
\* cohort is listed, monitor_jobs returns after at most as many polling
\* cycles as the script has snapshots.
C6_ReturnsWithinScript ==
    pc = "done" => spos - 1 <= Len(script)

\* C7: no qdel command is run before the loop has ended; after it, exactly
\* one is run, naming exactly the jobs of err_jobs, when err_jobs is not
\* empty and kill_err is set, and none otherwise.
C7_CancelOnce ==
    /\ pc # "done" => qdel = <<>>
    /\ pc = "done" =>
          qdel = IF err_jobs # <<>> /\ kill_err THEN <<err_jobs>> ELSE <<>>

C7_Witness ==
    pc = "done" /\ Len(qdel) = 1 /\ Len(qdel[1]) >= 2

C9_StuckOnceNeverPolled ==
    [][/\ \A j \in JobIds :
            InList(j, err_jobs) => InList(j, err_jobs') /\ ~InList(j, jobs')
       /\ \A k, m \in 1..Len(err_jobs') :
            err_jobs'[k] = err_jobs'[m] => k = m
       /\ Polling => ~InList(polled'[Len(polled')].job, err_jobs)]_vars

C9_Witness ==
    pc = "error" /\ err_jobs # <<>> /\ Len(polled) >= 1

\* ------------------------------------------------------------------------
\* A caller of one Job handle
\* ------------------------------------------------------------------------

\* the handle the caller holds
Subject == IdOf[1]

\* lines a test can put into the listing it passes to _debug_update: the
\* lines qstat prints for the job, a line that ends with its status column,
\* a line with no alphabetic column, and lines of another job
DebugLines ==
    {Line(Subject, s) : s \in {"r", "qw", "Eqw", "dr", "hqw"}} \cup
    {<<Subject, "0.50000", "python", "r">>,
     <<Subject, "0.50000", "1", "06/15/2017">>,
     Line(IdOf[2], "r"), Line(IdOf[2], "Eqw")}

\* the listings passed to _debug_update: up to two lines, of one job or two
DebugListings ==
    {<<>>} \cup {<<a>> : a \in DebugLines}
           \cup {<<a, b>> : a \in DebugLines, b \in DebugLines}

HandleInit ==
    /\ job_state_key = job_state_key_init
    /\ handle = [id \in JobIds |-> NewJob]
    /\ jobs_type = "NoneType"
    /\ jobs = <<>>
    /\ kill_err = TRUE
    /\ err_jobs = <<>>
    /\ num_jobs = 0
    /\ it = 0
    /\ i = 0
    /\ job = None
    /\ pc = "caller"
    /\ exc = ""
    /\ log = <<>>
    /\ qdel = <<>>
    /\ cohort = <<>>
    /\ removed = 0
    /\ cycle_jobs = <<>>
    /\ polled = <<>>
    /\ queried = FALSE
    /\ script = <<>>
    /\ spos = 0
    /\ last = [op |-> "none", id |-> None, nq |-> 0, raised |-> FALSE,
               ret |-> FALSE]
    /\ elapsed_time = "unbound"
    /\ returned = ""

\* lines 121-131: self._update(), as Job(id) calls it
HandleUpdate ==
    /\ pc = "caller"
    /\ \E u \in Updates(Subject) :
        /\ handle' = [handle EXCEPT ![Subject] = u.self]
        /\ job_state_key' = u.table
        /\ last' = [op |-> "_update", id |-> Subject, nq |-> u.nq,
                    raised |-> u.raised, ret |-> FALSE]
    /\ UNCHANGED <<pc, monitor_vars>>

\* lines 133-142: self._debug_update(qstat_stdout); an empty listing is
\* replaced by the listing of a qstat() call
HandleDebugUpdate ==
    /\ pc = "caller"
    /\ \E q \in DebugListings :
       \E f \in IF q = <<>> THEN Listings ELSE {<<>>} :
        LET u == Job_debug_update(handle[Subject], Subject, job_state_key,
                                  q, f, f, f)
        IN  /\ handle' = [handle EXCEPT ![Subject] = u.self]
            /\ job_state_key' = u.table
            /\ last' = [op |-> "_debug_update", id |-> Subject, nq |-> u.nq,
                        raised |-> FALSE, ret |-> FALSE]
    /\ UNCHANGED <<pc, monitor_vars>>

\* lines 144-163: running(), error(), present(): a refresh, then the
\* attribute
HandlePredicate ==
    /\ pc = "caller"
    /\ \E p \in {"running", "error", "present"}, u \in Updates(Subject) :
        /\ handle' = [handle EXCEPT ![Subject] = u.self]
        /\ job_state_key' = u.table
        /\ last' = [op |-> p, id |-> Subject, nq |-> u.nq,
                    raised |-> u.raised,
                    ret |-> IF u.raised THEN FALSE
                            ELSE IF p = "running" THEN u.self.is_running
                            ELSE IF p = "error" THEN u.self.is_error
                            ELSE u.self.is_present]
    /\ UNCHANGED <<pc, monitor_vars>>

HandleNext ==
    \/ HandleUpdate
    \/ HandleDebugUpdate
    \/ HandlePredicate

\* any sequence of refreshes and predicate calls on one handle
HandleSpec == HandleInit /\ [][HandleNext]_vars

\* ------------------------------------------------------------------------
\* Claims about the Job handle
\* ------------------------------------------------------------------------

\* C10: after a refresh (_update or _debug_update) that completed, every
\* derived boolean the handle has agrees with what the refresh derived:
\* is_running with state = Running, is_error with state = Error, is_present
\* with a non-empty entry.
C10_BooleansConsistent ==
    (last.op \in {"_update", "_debug_update"} /\ ~last.raised) =>
        LET h == handle[last.id]
        IN  /\ "is_running" \in h.attrs =>
                  (h.is_running <=> h.state = "Running")
            /\ "is_error" \in h.attrs =>
                  (h.is_error <=> h.state = "Error")
            /\ "is_present" \in h.attrs =>
                  (h.is_present <=> h.entry # <<>>)

\* C11: a call of running(), error() or present() that returns makes exactly
\* one qstat() call, whatever the listing holds: the job's line, other jobs'
\* lines only, or nothing at all.
C11_OneQueryPerPredicate ==
    (last.op \in {"running", "error", "present"} /\ ~last.raised) =>
        last.nq = 1

\* the state the documentation gives a status token
Documented(tok) ==
    CASE tok = "r"   -> "Running"
      [] tok = "qw"  -> "Waiting"
      [] tok = "Eqw" -> "Error"
      [] OTHER       -> None

\* C12: get_state is a total function of the status token: r gives Running,
\* qw Waiting, Eqw Error, and t, dr, a status that did not parse and every
\* other token give None, whatever was classified before (in every state
\* the table can be in); the state a refresh stores is the one of the status
\* it stored.
C12_ClassifierTotal ==
    /\ \A tok \in AlphaFields \cup {"t", None} :
          get_state(tok, job_state_key) = Documented(tok)
    /\ (last.op # "none" /\ ~last.raised) =>
          handle[last.id].state = Documented(handle[last.id].status)

C12_Witness ==
    /\ last.op = "_debug_update"
    /\ handle[Subject].status = "Eqw"
    /\ handle[Subject].state = "Error"
    /\ {"hqw", "None"} \subseteq DOMAIN job_state_key

\* C13: job_state_key is read-only after lines 28-33: no refresh and no
\* step of monitor_jobs adds, removes or changes an entry.
C13_TableReadOnly ==
    job_state_key = job_state_key_init

\* id is the first field of no line of the listing
NotListed(id, listing) ==
    \A k \in 1..Len(listing) : listing[k] = <<>> \/ listing[k][1] # id

\* what C14 says of a handle that was refreshed from a listing without it
ReadsAbsent(h) ==
    /\ h.entry = <<>>
    /\ h.status = None
    /\ h.state = None
    /\ ~h.is_present
    /\ ~h.is_running
    /\ ~h.is_error

\* C14: whatever the handle and the table hold, a refresh (_update or
\* _debug_update) from a listing in which the identifier is the first field
\* of no line leaves the handle with no entry, status None, state None and
\* is_present, is_running, is_error all False.
C14_UnlistedReadsAbsent ==
    \A q \in Listings \cup DebugListings :
        NotListed(Subject, q) =>
            /\ ReadsAbsent(Job_update(handle[Subject], Subject,
                                      job_state_key, q, q, q, q).self)
            /\ ReadsAbsent(Job_debug_update(handle[Subject], Subject,
                                            job_state_key, q, q, q, q).self)

\* the part of C14 that _update alone keeps
C14_UpdateReadsAbsent ==
    \A q \in Listings \cup DebugListings :
        NotListed(Subject, q) =>
            ReadsAbsent(Job_update(handle[Subject], Subject,
                                   job_state_key, q, q, q, q).self)

\* the status column of one line, read by the parser from that line alone
StatusOfLine(id, line) == get_status(id, <<line>>, <<>>, <<>>)

\* C15: when the entry of a refresh holds several lines as qstat prints
\* them, the status stored is the status of its first line, and the state
\* and the booleans are the ones of that status.
C15_FirstMatchWins ==
    (last.op \in {"_update", "_debug_update"} /\ ~last.raised
        /\ Len(handle[last.id].entry) >= 2
        /\ \A k \in 1..Len(handle[last.id].entry) :
              handle[last.id].entry[k] \in
                  {Line(last.id, st) : st \in StatusTokens}) =>
        LET h     == handle[last.id]
            first == StatusOfLine(last.id, h.entry[1])
        IN  /\ h.status = first
            /\ h.state = Documented(first)
            /\ h.is_running = (Documented(first) = "Running")

\* ------------------------------------------------------------------------
\* More claims about monitor_jobs
\* ------------------------------------------------------------------------

\* a step in which a qstat() call of a poll fails
PollFails == exc = "" /\ exc' = "ErrorReturnCode"

\* the failed poll changes neither list, and monitor_jobs is left for good
C17_FailedPollChangesNothing ==
    [][/\ PollFails => (jobs' = jobs /\ err_jobs' = err_jobs /\ pc' = "raised")
       /\ pc = "raised" => pc' = "raised"]_vars

\* C17: a qstat() failure during a poll leaves monitor_jobs as an exception
\* (no further step is made), the step of the failed poll changes neither
\* jobs nor err_jobs, and the job whose poll failed is still in jobs and not
\* in err_jobs.
C17_PollFailureSurfaced ==
    /\ C17_FailedPollChangesNothing
    /\ [](exc = "ErrorReturnCode" =>
             (pc = "raised" /\ InList(job, jobs) /\ ~InList(job, err_jobs)))

\* a job leaves the list without being moved to err_jobs only in the step
\* of its own present() call that returned False
DeletedOnOwnAbsence ==
    \A j \in JobIds :
        (InList(j, jobs) /\ ~InList(j, jobs') /\ ~InList(j, err_jobs')) =>
            /\ Polling
            /\ polled'[Len(polled')] =
                  [job |-> j, pred |-> "present", raised |-> FALSE,
                   ret |-> FALSE]

\* when monitor_jobs has left its loop on a valid cohort the list is empty
\* and every job was moved to err_jobs or deleted on its own absence
C18_ReturnsWithEmptyList ==
    /\ []((pc \in {"post", "done"} /\ Rejection(jobs_type, cohort) = "") =>
             (/\ jobs = <<>>
              /\ Len(err_jobs) + removed = Len(cohort)
              /\ Cardinality({k \in 1..Len(cohort) :
                                 ~InList(cohort[k], err_jobs)}) = removed))
    /\ [][DeletedOnOwnAbsence]_vars

\* C18: monitor_jobs on a valid cohort returns only with an empty list,
\* every job of the cohort then being in err_jobs or deleted after one of
\* its own present() calls returned False, and no predicate is called while
\* the list is empty.
C18_LoopEndsOnEmptyList ==
    /\ C18_ReturnsWithEmptyList
    /\ [][Polling => jobs # <<>>]_vars

\* ------------------------------------------------------------------------
\* A caller of one Job handle while the queue changes
\* ------------------------------------------------------------------------

\* what qstat() can return as far as the caller's handle reads it: nothing,
\* one line of its job, or a line of another job
SubjectListings ==
    {<<>>, <<Line(IdOf[2], "r")>>} \cup
    {<<Line(Subject, st)>> : st \in QueueStates \ {"absent"}}

\* lines 121-131: self._update(), each of its qstat() calls (line 125, and
\* line 65 reached from lines 126, 127 and 131) returning the listing of its
\* own moment
HandleRacingUpdate ==
    /\ pc = "caller"
    /\ \E q1, q2, q3, q4 \in SubjectListings :
        LET u == Job_update(handle[Subject], Subject, job_state_key,
                            q1, q2, q3, q4)
        IN  /\ handle' = [handle EXCEPT ![Subject] = u.self]
            /\ job_state_key' = u.table
            /\ last' = [op |-> "_update", id |-> Subject, nq |-> u.nq,
                        raised |-> FALSE, ret |-> FALSE]
    /\ UNCHANGED <<pc, monitor_vars>>

\* lines 144-163: running(), error(), present() while the queue changes
HandleRacingPredicate ==
    /\ pc = "caller"
    /\ \E p \in {"running", "error", "present"} :
       \E q1, q2, q3, q4 \in SubjectListings :
        LET u == Job_update(handle[Subject], Subject, job_state_key,
                            q1, q2, q3, q4)
        IN  /\ handle' = [handle EXCEPT ![Subject] = u.self]
            /\ job_state_key' = u.table
            /\ last' = [op |-> p, id |-> Subject, nq |-> u.nq,
                        raised |-> FALSE,
                        ret |-> IF p = "running" THEN u.self.is_running
                                ELSE IF p = "error" THEN u.self.is_error
                                ELSE u.self.is_present]
    /\ UNCHANGED <<pc, monitor_vars>>

RacingNext ==
    \/ HandleRacingUpdate
    \/ HandleRacingPredicate

\* any sequence of refreshes of one handle, the listing free to change from
\* one qstat() call to the next
RacingSpec == HandleInit /\ [][RacingNext]_vars

\* C19: after every _update the fields come from one listing: is_running
\* implies is_present and is_error implies is_present, also when a listing
\* is empty and when the listing changes between two qstat() calls.
C19_OneSnapshotPerRefresh ==
    (last.op # "none" /\ ~last.raised) =>
        /\ handle[last.id].is_running => handle[last.id].is_present
        /\ handle[last.id].is_error => handle[last.id].is_present

\* ------------------------------------------------------------------------
\* The waiting functions: old_job_monitor and wait_all_jobs_start
\* ------------------------------------------------------------------------

\* what one qstat() call can return as far as a check of job id reads it:
\* nothing, one line of the job, or a line of another job
PollListings(id) ==
    {<<>>} \cup {<<Line(id, st)>> : st \in QueueStates \ {"absent"}}
           \cup {<<Line(o, "r")>> : o \in JobIds \ {id}}

\* one listing for each element of a list comprehension over list
ListingsFor(list) ==
    {qs \in [1..Len(list) -> UNION {PollListings(id) : id \in JobIds}] :
        \A k \in 1..Len(list) : qs[k] \in PollListings(list[k])}

\* [job.pred() for job in list]: the handles are refreshed one after the
\* other, the k-th from the listing qs[k]; the first qstat() call of the
\* fail-th refresh raises (fail = 0: none does)
RECURSIVE PollEach(_, _, _, _, _)
PollEach(list, pred, qs, fail, st) ==
    IF list = <<>> THEN st
    ELSE IF fail = 1 THEN [st EXCEPT !.raised = TRUE]
    ELSE LET id == Head(list)
             u  == Job_update(st.handle[id], id, st.table,
                              Head(qs), Head(qs), Head(qs), Head(qs))
         IN  PollEach(Tail(list), pred, Tail(qs),
                      IF fail = 0 THEN 0 ELSE fail - 1,
                      [handle |-> [st.handle EXCEPT ![id] = u.self],
                       table  |-> u.table,
                       polls  |-> Append(st.polls,
                                    [job |-> id, pred |-> pred,
                                     raised |-> FALSE,
                                     ret |-> IF pred = "running"
                                             THEN u.self.is_running
                                             ELSE u.self.is_present]),
                       raised |-> FALSE])

\* the outcomes of [job.pred() for job in jobs]
Comprehensions(pred) ==
    {PollEach(jobs, pred, qs, fail,
              [handle |-> handle, table |-> job_state_key, polls |-> <<>>,
               raised |-> FALSE]) :
        qs \in ListingsFor(jobs), fail \in 0..Len(jobs)}

\* all(...) and any(...) of the list a comprehension built
all(polls) == \A k \in 1..Len(polls) : polls[k].ret

any(polls) == \E k \in 1..Len(polls) : polls[k].ret

none_present(polls) == \A k \in 1..Len(polls) : ~polls[k].ret

\* what every comprehension of old_job_monitor does to the handles, and the
\* exception of a qstat() call that fails
Comprehend(c) ==
    /\ handle' = c.handle
    /\ job_state_key' = c.table
    /\ polled' = c.polls
    /\ queried' = TRUE
    /\ exc' = IF c.raised THEN "ErrorReturnCode" ELSE exc

AllExited == "All jobs exited while waiting for jobs to start"

SomeRemaining ==
    "Some jobs are remaining in the job queue but are not running"

\* lines 306-309: an empty list is reported and old_job_monitor returns
OldCall ==
    /\ pc = "old_call"
    /\ IF Len(jobs) < 1
       THEN /\ log' = Append(log, "No qsub jobs are present in queue for task")
            /\ returned' = "()"
            /\ pc' = "done"
       ELSE /\ pc' = "old_start"
            /\ UNCHANGED <<log, returned>>
    /\ UNCHANGED <<job_state_key, handle, jobs_type, jobs, kill_err, err_jobs,
                   num_jobs, it, i, job, exc, qdel, cohort, removed,
                   cycle_jobs, polled, queried, script, spos, last,
                   elapsed_time>>

\* line 316: while not all([job.running() for job in jobs])
OldStart ==
    /\ pc = "old_start"
    /\ \E c \in Comprehensions("running") :
        /\ Comprehend(c)
        /\ pc' = IF c.raised THEN "raised"
                 ELSE IF all(c.polls) THEN "old_check"
                 ELSE "old_present"
    /\ UNCHANGED <<jobs_type, jobs, kill_err, err_jobs, num_jobs, it, i, job,
                   log, qdel, cohort, removed, cycle_jobs, script, spos, last,
                   elapsed_time, returned>>

\* lines 317-324: sleep(1), then if all([not job.present() for job in
\* jobs]) the warning and break
OldPresent ==
    /\ pc = "old_present"
    /\ \E c \in Comprehensions("present") :
        /\ Comprehend(c)
        /\ pc' = IF c.raised THEN "raised"
                 ELSE IF none_present(c.polls) THEN "old_check"
                 ELSE "old_start"
        /\ log' = IF ~c.raised /\ none_present(c.polls)
                  THEN Append(log, AllExited)
                  ELSE log
    /\ UNCHANGED <<jobs_type, jobs, kill_err, err_jobs, num_jobs, it, i, job,
                   qdel, cohort, removed, cycle_jobs, script, spos, last,
                   elapsed_time, returned>>

\* line 330: if any([job.running() for job in jobs])
OldCheck ==
    /\ pc = "old_check"
    /\ \E c \in Comprehensions("running") :
        /\ Comprehend(c)
        /\ pc' = IF c.raised THEN "raised"
                 ELSE IF any(c.polls) THEN "old_finish"
                 ELSE "old_report"
    /\ UNCHANGED <<jobs_type, jobs, kill_err, err_jobs, num_jobs, it, i, job,
                   log, qdel, cohort, removed, cycle_jobs, script, spos, last,
                   elapsed_time, returned>>

\* lines 334-335: while any([job.running() for job in jobs]): sleep(5)
OldFinish ==
    /\ pc = "old_finish"
    /\ \E c \in Comprehensions("running") :
        /\ Comprehend(c)
        /\ pc' = IF c.raised THEN "raised"
                 ELSE IF any(c.polls) THEN "old_finish"
                 ELSE "old_report"
    /\ UNCHANGED <<jobs_type, jobs, kill_err, err_jobs, num_jobs, it, i, job,
                   log, qdel, cohort, removed, cycle_jobs, script, spos, last,
                   elapsed_time, returned>>

\* lines 337 and 339: not any([job.running() for job in jobs]), the first
\* operand of the if and of the elif
OldReportRunning ==
    /\ pc \in {"old_report", "old_elif"}
    /\ \E c \in Comprehensions("running") :
        /\ Comprehend(c)
        /\ pc' = IF c.raised THEN "raised"
                 ELSE IF ~any(c.polls)
                 THEN (IF pc = "old_report" THEN "old_report_present"
                       ELSE "old_elif_present")
                 ELSE (IF pc = "old_report" THEN "old_elif" ELSE "done")
        /\ returned' = IF ~c.raised /\ any(c.polls) /\ pc = "old_elif"
                       THEN "()" ELSE returned
    /\ UNCHANGED <<jobs_type, jobs, kill_err, err_jobs, num_jobs, it, i, job,
                   log, qdel, cohort, removed, cycle_jobs, script, spos, last,
                   elapsed_time>>

\* lines 337-341: any([job.present() for job in jobs]), the second operand
\* of the if and of the elif, the message, the return
OldReportPresent ==
    /\ pc \in {"old_report_present", "old_elif_present"}
    /\ \E c \in Comprehensions("present") :
        /\ Comprehend(c)
        /\ pc' = IF c.raised THEN "raised"
                 ELSE IF pc = "old_report_present" /\ any(c.polls)
                 THEN "old_elif"
                 ELSE "done"
        /\ log' = IF ~c.raised /\ pc = "old_elif_present" /\ any(c.polls)
                  THEN Append(log, SomeRemaining)
                  ELSE log
        /\ returned' = IF c.raised \/ (pc = "old_report_present" /\ any(c.polls))
                       THEN returned ELSE "()"
    /\ UNCHANGED <<jobs_type, jobs, kill_err, err_jobs, num_jobs, it, i, job,
                   qdel, cohort, removed, cycle_jobs, script, spos, last,
                   elapsed_time>>

\* lines 389-400: whether a line of the listing holds the identifier and,
\* after it, the status as a field of its own (the pattern looks for the
\* identifier anywhere in the line; here no other field contains it)
check_job_status(job_id, desired_status, qstat_stdout) ==
    \E k \in 1..Len(qstat_stdout) :
        \E a, b \in 1..Len(qstat_stdout[k]) :
            /\ a < b
            /\ qstat_stdout[k][a] = job_id
            /\ qstat_stdout[k][b] = desired_status

\* lines 442-449: whether no line of the listing holds the identifier
check_job_absent(job_id, qstat_stdout) ==
    ~ \E k \in 1..Len(qstat_stdout) :
        \E a \in 1..Len(qstat_stdout[k]) : qstat_stdout[k][a] = job_id

\* [check(job_id) for job_id in list], each check with the listing of its
\* own qstat() call
Checks(list, pred, qs) ==
    [k \in 1..Len(list) |->
        [job |-> list[k], pred |-> pred, raised |-> FALSE,
         ret |-> IF pred = "check_job_status"
                 THEN check_job_status(list[k], "r", qs[k])
                 ELSE check_job_absent(list[k], qs[k])]]

\* lines 421-423: jobs_started = False, elapsed_time not yet assigned
WaitCall ==
    /\ pc = "wait_call"
    /\ elapsed_time' = "unbound"
    /\ pc' = "wait_test"
    /\ UNCHANGED <<job_state_key, handle, jobs_type, jobs, kill_err, err_jobs,
                   num_jobs, it, i, job, exc, log, qdel, cohort, removed,
                   cycle_jobs, polled, queried, script, spos, last, returned>>

\* line 424: while not all([check_job_status(job_id, "r") ...])
WaitTest ==
    /\ pc = "wait_test"
    /\ \E qs \in ListingsFor(jobs) :
        /\ polled' = Checks(jobs, "check_job_status", qs)
        /\ pc' = IF all(polled') THEN "wait_after" ELSE "wait_body"
    /\ queried' = (queried \/ jobs # <<>>)
    /\ UNCHANGED <<job_state_key, handle, jobs_type, jobs, kill_err, err_jobs,
                   num_jobs, it, i, job, exc, log, qdel, cohort, removed,
                   cycle_jobs, script, spos, last, elapsed_time, returned>>

\* lines 425-432: elapsed_time is assigned; if all([check_job_absent(job_id)
\* ...]) jobs_started (False) is returned, else sleep(2)
WaitBody ==
    /\ pc = "wait_body"
    /\ elapsed_time' = "bound"
    /\ \E qs \in ListingsFor(jobs) :
        /\ polled' = Checks(jobs, "check_job_absent", qs)
        /\ IF all(polled')
           THEN returned' = "False" /\ pc' = "done"
           ELSE pc' = "wait_test" /\ UNCHANGED returned
    /\ UNCHANGED <<job_state_key, handle, jobs_type, jobs, kill_err, err_jobs,
                   num_jobs, it, i, job, exc, log, qdel, cohort, removed,
                   cycle_jobs, queried, script, spos, last>>

\* lines 433-436: the message formats elapsed_time, a local variable that
\* is unbound when the loop body never ran; then jobs_started is set by a
\* last check and returned
WaitAfter ==
    /\ pc = "wait_after"
    /\ IF elapsed_time = "unbound"
       THEN /\ exc' = "UnboundLocalError"
            /\ pc' = "raised"
            /\ UNCHANGED <<polled, returned, queried>>
       ELSE /\ \E qs \in ListingsFor(jobs) :
                /\ polled' = Checks(jobs, "check_job_status", qs)
                /\ returned' = IF all(polled') THEN "True" ELSE "False"
            /\ pc' = "done"
            /\ queried' = TRUE
            /\ UNCHANGED exc
    /\ UNCHANGED <<job_state_key, handle, jobs_type, jobs, kill_err, err_jobs,
                   num_jobs, it, i, job, log, qdel, cohort, removed,
                   cycle_jobs, script, spos, last, elapsed_time>>

\* a call of old_job_monitor on a list of handles, or of
\* wait_all_jobs_start on the list of their identifiers; the jobs were
\* submitted and listed as waiting
BarrierInit ==
    /\ job_state_key = job_state_key_init
    /\ handle = [id \in JobIds |->
                   Job_update(NewJob, id, job_state_key_init,
                              <<Line(id, "qw")>>, <<>>, <<>>, <<>>).self]
    /\ jobs_type = "list"
    /\ jobs \in Cohorts
    /\ kill_err = TRUE
    /\ err_jobs = <<>>
    /\ num_jobs = 0
    /\ it = 0
    /\ i = 0
    /\ job = None
    /\ pc \in {"old_call", "wait_call"}
    /\ exc = ""
    /\ log = <<>>
    /\ qdel = <<>>
    /\ cohort = jobs
    /\ removed = 0
    /\ cycle_jobs = <<>>
    /\ polled = <<>>
    /\ queried = FALSE
    /\ script = <<>>
    /\ spos = 0
    /\ last = [op |-> "none", id |-> None, nq |-> 0, raised |-> FALSE,
               ret |-> FALSE]
    /\ elapsed_time = "unbound"
    /\ returned = ""

BarrierNext ==
    \/ OldCall
    \/ OldStart
    \/ OldPresent
    \/ OldCheck
    \/ OldFinish
    \/ OldReportRunning
    \/ OldReportPresent
    \/ WaitCall
    \/ WaitTest
    \/ WaitBody
    \/ WaitAfter

\* one call of a waiting function, the queue source returning any listing
BarrierSpec == BarrierInit /\ [][BarrierNext]_vars

\* ------------------------------------------------------------------------
\* Claims about the waiting functions
\* ------------------------------------------------------------------------

\* the first loop of old_job_monitor is left only when the comprehension
\* just built says all jobs run or no job is present
C16_PhaseOneBlocks ==
    [][(pc \in {"old_start", "old_present"} /\ pc' = "old_check") =>
          /\ Len(polled') = Len(jobs)
          /\ IF pc = "old_start"
             THEN \A k \in 1..Len(polled') :
                     polled'[k].pred = "running" /\ polled'[k].ret
             ELSE \A k \in 1..Len(polled') :
                     polled'[k].pred = "present" /\ ~polled'[k].ret]_vars

\* C16: old_job_monitor leaves its first loop only when all jobs report
\* running or all report not present, and it enters its second loop (wait
\* until no job reports running) only if the first was left because all
\* jobs reported running, never after it was left because no job was
\* present.
C16_TwoPhases ==
    /\ C16_PhaseOneBlocks
    /\ [](pc = "old_finish" => ~InList(AllExited, log))

\* C20: wait_all_jobs_start never fails, whatever the listings are: it
\* returns True when all jobs are found running, also when they are at the
\* very first check, and False when all jobs are found absent.
C20_WaitReturnsBoolean ==
    /\ jobs # <<>> => exc # "UnboundLocalError"
    /\ (pc = "done" /\ returned # "()" /\ log = <<>>) =>
          returned \in {"True", "False"}
    /\ returned = "True" =>
          \A k \in 1..Len(polled) :
              polled[k].pred = "check_job_status" /\ polled[k].ret
    /\ (returned = "False" /\ polled # <<>>
          /\ polled[1].pred = "check_job_absent") =>
          \A k \in 1..Len(polled) : polled[k].ret

====
